---------------------------- MODULE Spec2Model ----------------------------
(***************************************************************************)
(* File_Converter: converters.py (BaseFileConverter, ImageFile,            *)
(* DocConverter) driven as in main.py / ui.py.                             *)
(*                                                                         *)
(* Python str values are modelled as sequences of one-character strings,   *)
(* so that lower(), upper(), lstrip(), startswith(), join() and            *)
(* Path.with_suffix() are computed character by character.                 *)
(***************************************************************************)
EXTENDS Naturals, Sequences, FiniteSets, TLC

(***************************************************************************)
(* Bounds of the model.                                                    *)
(***************************************************************************)
\* constructor and convert calls made in one run
MaxCalls == 3

(***************************************************************************)
(* str methods used by converters.py                                       *)
(***************************************************************************)
ascii_lowercase == <<"a","b","c","d","e","f","g","h","i","j","k","l","m","n","o","p","q","r","s","t","u","v","w","x","y","z">>
ascii_uppercase == <<"A","B","C","D","E","F","G","H","I","J","K","L","M","N","O","P","Q","R","S","T","U","V","W","X","Y","Z">>

\* position of character c in alphabet s, 0 when absent
find(s, c) == IF \E i \in 1..Len(s) : s[i] = c
              THEN CHOOSE i \in 1..Len(s) : s[i] = c
              ELSE 0

\* lower() that leaves the text as typed
lower_as_typed(s) == s

\* str.lower()
lower(s) == [i \in 1..Len(s) |->
               IF find(ascii_uppercase, s[i]) = 0 THEN s[i]
               ELSE ascii_lowercase[find(ascii_uppercase, s[i])]]

\* str.upper()
upper(s) == [i \in 1..Len(s) |->
               IF find(ascii_lowercase, s[i]) = 0 THEN s[i]
               ELSE ascii_uppercase[find(ascii_lowercase, s[i])]]

\* str.lstrip(chars) for a one-character argument: every leading c is removed
RECURSIVE lstrip(_, _)
lstrip(s, c) == IF s # <<>> /\ Head(s) = c THEN lstrip(Tail(s), c) ELSE s

\* a comparison of the whole string in place of startswith
startswith_exact(s, prefix) == s = prefix

\* str.startswith(prefix)
startswith(s, prefix) == /\ Len(prefix) <= Len(s)
                         /\ SubSeq(s, 1, Len(prefix)) = prefix

\* sep.join(parts)
RECURSIVE join(_, _)
join(sep, parts) == IF parts = <<>> THEN <<>>
                    ELSE IF Len(parts) = 1 THEN parts[1]
                    ELSE parts[1] \o sep \o join(sep, Tail(parts))

\* str.rfind(c): last position of c in s, 0 when absent
rfind(s, c) == IF \E i \in 1..Len(s) : s[i] = c
               THEN CHOOSE i \in 1..Len(s) : s[i] = c /\ \A j \in (i+1)..Len(s) : s[j] # c
               ELSE 0

(***************************************************************************)
(* pathlib.Path                                                            *)
(***************************************************************************)
\* Path.name: the final component
name(path) == SubSeq(path, rfind(path, "/") + 1, Len(path))

\* Path.suffix: the last dot-part of the name, "" for none
suffix(path) == LET n == name(path)
                    i == rfind(n, ".")
                IN  IF 1 < i /\ i < Len(n) THEN SubSeq(n, i, Len(n)) ELSE <<>>

\* Path.with_suffix(suffix)
with_suffix(path, suf) == SubSeq(path, 1, Len(path) - Len(suffix(path))) \o suf

(***************************************************************************)
(* Class attributes                                                        *)
(***************************************************************************)
\* dicts are sequences of <<key, value>> in insertion order
keys(d) == [i \in 1..Len(d) |-> d[i][1]]
has_key(d, k) == \E i \in 1..Len(d) : d[i][1] = k
getitem(d, k) == d[CHOOSE i \in 1..Len(d) : d[i][1] = k][2]

ImageFile_MIME_TYPE == << <<"i","m","a","g","e","/">> >>

ImageFile_SUPPORTED_FORMATS ==
    << << <<"j","p","e","g">>, <<".","j","p","g">> >>,
       << <<"j","p","g">>,  <<".","j","p","g">> >>,
       << <<"p","n","g">>,  <<".","p","n","g">> >>,
       << <<"w","e","b","p">>, <<".","w","e","b","p">> >>,
       << <<"b","m","p">>,  <<".","b","m","p">> >>,
       << <<"g","i","f">>,  <<".","g","i","f">> >>,
       << <<"p","d","f">>,  <<".","p","d","f">> >> >>

DocConverter_MIME_TYPE ==
    << <<"a","p","p","l","i","c","a","t","i","o","n","/","p","d","f">>,
       <<"a","p","p","l","i","c","a","t","i","o","n","/","m","s","w","o","r","d">>,
       <<"a","p","p","l","i","c","a","t","i","o","n","/","v","n","d",".","o","p","e","n","x","m","l","f","o","r","m","a","t","s","-","o","f","f","i","c","e","d","o","c","u","m","e","n","t",".","w","o","r","d","p","r","o","c","e","s","s","i","n","g","m","l",".","d","o","c","u","m","e","n","t">>,
       <<"t","e","x","t","/","p","l","a","i","n","a","p","p","l","i","c","a","t","i","o","n","/","r","t","f">>,
       <<"t","e","x","t","/","c","s","v">>,
       <<"a","p","p","l","i","c","a","t","i","o","n","/","v","n","d",".","o","a","s","i","s",".","o","p","e","n","d","o","c","u","m","e","n","t",".","t","e","x","t">>,
       <<"a","p","p","l","i","c","a","t","i","o","n","/","v","n","d",".","o","a","s","i","s",".","o","p","e","n","d","o","c","u","m","e","n","t",".","s","p","r","e","a","d","s","h","e","e","t">>,
       <<"a","p","p","l","i","c","a","t","i","o","n","/","v","n","d",".","o","a","s","i","s",".","o","p","e","n","d","o","c","u","m","e","n","t",".","p","r","e","s","e","n","t","a","t","i","o","n">>,
       <<"a","p","p","l","i","c","a","t","i","o","n","/","v","n","d",".","m","s","-","e","x","c","e","l">>,
       <<"a","p","p","l","i","c","a","t","i","o","n","/","v","n","d",".","o","p","e","n","x","m","l","f","o","r","m","a","t","s","-","o","f","f","i","c","e","d","o","c","u","m","e","n","t",".","s","p","r","e","a","d","s","h","e","e","t","m","l",".","s","h","e","e","t">> >>

DocConverter_SUPPORTED_FORMATS ==
    << << <<".","d","o","c","x">>, <<"d","o","c","x">> >>,
       << <<".","d","o","c">>,  <<"d","o","c">> >>,
       << <<".","p","d","f">>,  <<"p","d","f">> >>,
       << <<".","t","x","t">>,  <<"t","x","t">> >>,
       << <<".","m","d">>,   <<"m","d">> >>,
       << <<".","c","s","v">>,  <<"c","s","v">> >> >>

Classes == {"ImageFile", "DocConverter"}
MIME_TYPE(cls) == IF cls = "ImageFile" THEN ImageFile_MIME_TYPE ELSE DocConverter_MIME_TYPE
SUPPORTED_FORMATS(cls) == IF cls = "ImageFile" THEN ImageFile_SUPPORTED_FORMATS
                          ELSE DocConverter_SUPPORTED_FORMATS

(***************************************************************************)
(* Exceptions: a type and the message text                                 *)
(***************************************************************************)
None == [type |-> "None", msg |-> <<>>]
Raise(type, msg) == [type |-> type, msg |-> msg]

(***************************************************************************)
(* BaseFileConverter                                                       *)
(***************************************************************************)
\* _validate_file_type that returns whatever the sniffed type
_validate_file_type_any(cls, file_type) == None

\* _validate_file_type: None on return, the ValueError raised otherwise
_validate_file_type(cls, file_type) ==
    IF \E i \in 1..Len(MIME_TYPE(cls)) : startswith(file_type, MIME_TYPE(cls)[i])
    THEN None
    ELSE Raise("ValueError",
               <<"O","n","l","y"," ">> \o join(<<","," ">>, MIME_TYPE(cls))
                 \o <<" ","f","i","l","e"," ","t","y","p","e","s"," ","c","a","n"," ","b","e"," ","p","a","s","s","e","d"," ","t","o"," ","t","h","i","s"," ","o","b","j","e","c","t">>)

\* _validate_extension whose message lists the table's values
_validate_extension_values(cls, extension) ==
    LET ext == lstrip(lower(extension), ".")
        d == SUPPORTED_FORMATS(cls)
        supported == join(<<",">>, [i \in 1..Len(d) |-> d[i][2]])
    IN  IF ~has_key(d, ext)
        THEN [raised |-> Raise("ValueError",
                               <<"U","n","s","u","p","p","o","r","t","e","d"," ","f","o","r","m","a","t",":"," ">> \o extension
                                 \o <<"\n","S","u","p","p","o","r","t","e","d"," ","f","o","r","m","a","t","s",":"," ">> \o supported),
              value |-> <<>>]
        ELSE [raised |-> None, value |-> getitem(d, ext)]

\* _validate_extension: [raised, value]
_validate_extension(cls, extension) ==
    LET ext == lstrip(lower(extension), ".")
        supported == join(<<",">>, keys(SUPPORTED_FORMATS(cls)))
    IN  IF ~has_key(SUPPORTED_FORMATS(cls), ext)
        THEN [raised |-> Raise("ValueError",
                               <<"U","n","s","u","p","p","o","r","t","e","d"," ","f","o","r","m","a","t",":"," ">> \o extension
                                 \o <<"\n","S","u","p","p","o","r","t","e","d"," ","f","o","r","m","a","t","s",":"," ">> \o supported),
              value |-> <<>>]
        ELSE [raised |-> None, value |-> getitem(SUPPORTED_FORMATS(cls), ext)]



(***************************************************************************)
(* ImageFile                                                               *)
(***************************************************************************)
\* _convert_to_rgb that forgets palette images
_convert_to_rgb_no_palette(mode) == IF mode \in {"RGBA", "LA"} THEN "RGB" ELSE mode

\* _convert_to_rgb, on the colour mode of the image
_convert_to_rgb(mode) == IF mode \in {"RGBA", "LA", "P"} THEN "RGB" ELSE mode

(***************************************************************************)
(* Collaborators: libmagic, Pillow, pypandoc                               *)
(***************************************************************************)
\* a file's content: the format it is encoded in and, for an image, its colour mode
Content(format, mode) == [format |-> format, mode |-> mode]

\* magic.Magic(mime=True).from_file: the media type sniffed from the content
from_file(content) ==
    CASE content.format = <<"P","N","G">>  -> <<"i","m","a","g","e","/","p","n","g">>
      [] content.format = <<"J","P","E","G">> -> <<"i","m","a","g","e","/","j","p","e","g">>
      [] content.format = <<"G","I","F">>  -> <<"i","m","a","g","e","/","g","i","f">>
      [] content.format = <<"W","E","B","P">> -> <<"i","m","a","g","e","/","w","e","b","p">>
      [] content.format = <<"B","M","P">>  -> <<"i","m","a","g","e","/","b","m","p">>
      [] content.format = <<"S","V","G">>  -> <<"i","m","a","g","e","/","s","v","g","+","x","m","l">>
      [] content.format = <<"P","D","F">>  -> <<"a","p","p","l","i","c","a","t","i","o","n","/","p","d","f">>
      [] content.format = <<"D","O","C","X">> -> <<"a","p","p","l","i","c","a","t","i","o","n","/","v","n","d",".","o","p","e","n","x","m","l","f","o","r","m","a","t","s","-","o","f","f","i","c","e","d","o","c","u","m","e","n","t",".","w","o","r","d","p","r","o","c","e","s","s","i","n","g","m","l",".","d","o","c","u","m","e","n","t">>
      [] content.format = <<"O","T","T">>  -> <<"a","p","p","l","i","c","a","t","i","o","n","/","v","n","d",".","o","a","s","i","s",".","o","p","e","n","d","o","c","u","m","e","n","t",".","t","e","x","t","-","t","e","m","p","l","a","t","e">>
      [] content.format = <<"T","X","T">>  -> <<"t","e","x","t","/","p","l","a","i","n">>

\* Pillow's Image.open: the formats it has a decoder for
Image_OPEN == { <<"P","N","G">>, <<"J","P","E","G">>, <<"G","I","F">>, <<"W","E","B","P">>, <<"B","M","P">> }

\* Pillow's Image.save(fp, format): format names with a registered encoder
Image_SAVE == { <<"P","N","G">>, <<"J","P","E","G">>, <<"G","I","F">>, <<"W","E","B","P">>, <<"B","M","P">>, <<"P","D","F">> }

\* Image.save(fp, format) of an image in colour mode `mode`: the exception raised, or None.
\* An unregistered format name is a KeyError raised before the file is opened;
\* the JPEG encoder cannot write a mode with alpha or a palette, nor the BMP encoder LA.
Image_save(format, mode) ==
    IF format \notin Image_SAVE
    THEN Raise("KeyError", format)
    ELSE IF \/ format = <<"J","P","E","G">> /\ mode \in {"RGBA", "LA", "P"}
            \/ format = <<"B","M","P">> /\ mode = "LA"
         THEN Raise("OSError", <<"c","a","n","n","o","t"," ","w","r","i","t","e"," ","m","o","d","e"," ">>)
         ELSE None

\* what pypandoc.convert_file may write: it fails, or leaves a document
PandocOutputs == { <<"P","D","F">>, <<"D","O","C","X">> }

(***************************************************************************)
(* Inputs                                                                  *)
(***************************************************************************)
\* the files on disk when the program starts
InitialFiles ==
    ( <<"p","h","o","t","o",".","p","n","g">>  :> Content(<<"P","N","G">>, "RGBA") ) @@
    ( <<"s","c","a","n",".","j","p","g">>   :> Content(<<"J","P","E","G">>, "RGB") ) @@
    ( <<"i","c","o","n",".","g","i","f">>   :> Content(<<"G","I","F">>, "P") ) @@
    ( <<"v","1",".","2","/","g","r","a","y">>  :> Content(<<"P","N","G">>, "LA") ) @@
    ( <<"l","o","g","o",".","s","v","g">>   :> Content(<<"S","V","G">>, "") ) @@
    ( <<"n","o","t","e","s",".","t","x","t">>  :> Content(<<"T","X","T">>, "") ) @@
    ( <<"r","e","p","o","r","t",".","p","d","f">> :> Content(<<"P","D","F">>, "") ) @@
    ( <<"f","o","r","m",".","o","t","t">>   :> Content(<<"O","T","T">>, "") )

\* paths a caller may hand to a constructor
Paths == DOMAIN InitialFiles \cup { <<"m","i","s","s","i","n","g",".","p","n","g">> }

\* extension strings a caller may hand to convert
Extensions ==
    { <<"j","p","e","g">>, <<"j","p","g">>, <<"p","n","g">>, <<"w","e","b","p">>, <<"b","m","p">>, <<"g","i","f">>, <<"p","d","f">>,
      <<"P","N","G">>, <<".","p","n","g">>, <<".","j","p","g">>, <<"t","i","f","f">>, <<".","d","o","c","x">> }

(***************************************************************************)
(* State                                                                   *)
(***************************************************************************)
VARIABLES
    pypandoc_installed, \* whether `import pypandoc` can succeed in this environment
    module,             \* converters.py: "unloaded", "loaded" or "ImportError"
    fs,                 \* the file system: path -> content
    objs,               \* the converter instances constructed so far
    result,             \* the last call and how it ended
    opened,             \* paths handed to Image.open
    saves,              \* Image.save invocations
    pandoc_calls,       \* pypandoc.convert_file invocations
    calls               \* number of constructor and convert calls made

vars == <<pypandoc_installed, module, fs, objs, result, opened, saves, pandoc_calls, calls>>

\* an output path made fresh for every call instead of replacing the suffix only
output_path_numbered(file, dot_ext) ==
    with_suffix(file, <<".", <<"0","1","2","3","4","5","6","7","8","9">>[calls + 1]>> \o dot_ext)

\* ImageFile.convert, lines 91-92: the output path
output_path(file, dot_ext) == with_suffix(file, dot_ext)

Result(call, self, file, extension, raised, value) ==
    [call |-> call, self |-> self, file |-> file, extension |-> extension,
     raised |-> raised, value |-> value]

write(path, content) ==
    [p \in DOMAIN fs \cup {path} |-> IF p = path THEN content ELSE fs[p]]

Init ==
    /\ pypandoc_installed \in BOOLEAN
    /\ module = "unloaded"
    /\ fs = InitialFiles
    /\ objs = <<>>
    /\ result = Result("start", 0, <<>>, <<>>, None, <<>>)
    /\ opened = {}
    /\ saves = {}
    /\ pandoc_calls = {}
    /\ calls = 0

(***************************************************************************)
(* Operations                                                              *)
(***************************************************************************)
\* `from converters import ...`: the module body runs `import pypandoc` at its top
Import ==
    /\ module = "unloaded"
    /\ IF pypandoc_installed
       THEN /\ module' = "loaded"
            /\ result' = Result("import", 0, <<>>, <<>>, None, <<>>)
       ELSE /\ module' = "ImportError"
            /\ result' = Result("import", 0, <<>>, <<>>,
                                 Raise("ImportError", <<"N","o"," ","m","o","d","u","l","e"," ","n","a","m","e","d"," ","'","p","y","p","a","n","d","o","c","'">>), <<>>)
    /\ UNCHANGED <<pypandoc_installed, fs, objs, opened, saves, pandoc_calls, calls>>

\* BaseFileConverter.__init__ as run for class cls: the exception raised, or None
Base_init(cls, file) ==
    IF file \notin DOMAIN fs
    THEN Raise("FileNotFoundError", file)
    ELSE _validate_file_type(cls, from_file(fs[file]))

\* ImageFile(file)
NewImageFile(file) ==
    /\ module = "loaded"
    /\ calls < MaxCalls
    /\ calls' = calls + 1
    /\ LET raised == Base_init("ImageFile", file)
       IN  /\ result' = Result("ImageFile", 0, file, <<>>, raised, <<>>)
           /\ objs' = IF raised = None
                       THEN Append(objs, [cls |-> "ImageFile", file |-> file])
                       ELSE objs
    /\ UNCHANGED <<pypandoc_installed, module, fs, opened, saves, pandoc_calls>>

\* DocConverter(file)
NewDocConverter(file) ==
    /\ module = "loaded"
    /\ calls < MaxCalls
    /\ calls' = calls + 1
    /\ LET raised == Base_init("DocConverter", file)
       IN  /\ result' = Result("DocConverter", 0, file, <<>>, raised, <<>>)
           /\ objs' = IF raised = None
                       THEN Append(objs, [cls |-> "DocConverter", file |-> file,
                                          HAS_PYPANDOC |-> pypandoc_installed])
                       ELSE objs
    /\ UNCHANGED <<pypandoc_installed, module, fs, opened, saves, pandoc_calls>>

\* ImageFile.convert(extension) on instance self
ImageFile_convert(self, extension) ==
    /\ self \in DOMAIN objs
    /\ objs[self].cls = "ImageFile"
    /\ calls < MaxCalls
    /\ calls' = calls + 1
    /\ LET file    == objs[self].file
           img     == fs[file]
           ext     == _validate_extension("ImageFile", extension)
           dot_ext == ext.value
           mode    == IF dot_ext = <<".","j","p","g">> THEN _convert_to_rgb(img.mode) ELSE img.mode
           out     == output_path(file, dot_ext)
           format  == upper(extension)
           failed  == Image_save(format, mode)
       IN  /\ opened' = opened \cup {file}
           /\ IF img.format \notin Image_OPEN
              THEN /\ result' = Result("ImageFile.convert", self, file, extension,
                                        Raise("UnidentifiedImageError", file), <<>>)
                   /\ UNCHANGED <<fs, saves>>
              ELSE IF ext.raised # None
              THEN /\ result' = Result("ImageFile.convert", self, file, extension,
                                        ext.raised, <<>>)
                   /\ UNCHANGED <<fs, saves>>
              ELSE /\ saves' = saves \cup
                        {[call |-> calls + 1, self |-> self, file |-> file,
                          extension |-> extension, source_mode |-> img.mode,
                          mode |-> mode, path |-> out, format |-> format,
                          raised |-> failed]}
                   /\ fs' = IF failed = None THEN write(out, Content(format, mode)) ELSE fs
                   /\ result' = Result("ImageFile.convert", self, file, extension, failed,
                                        IF failed = None THEN out ELSE <<>>)
    /\ UNCHANGED <<pypandoc_installed, module, objs, pandoc_calls>>

\* DocConverter.convert(extension) on instance self
DocConverter_convert(self, extension) ==
    /\ self \in DOMAIN objs
    /\ objs[self].cls = "DocConverter"
    /\ calls < MaxCalls
    /\ calls' = calls + 1
    /\ LET file       == objs[self].file
           outputfile == <<"o","u","t","p","u","t",".">> \o extension
       IN  IF ~objs[self].HAS_PYPANDOC
           THEN /\ result' = Result("DocConverter.convert", self, file, extension,
                                     Raise("RuntimeError",
                                           <<"p","y","p","a","n","d","o","c"," ","n","o","t"," ","a","v","a","i","l","a","b","l","e",","," ","c","a","n","n","o","t"," ","c","o","n","v","e","r","t"," ","d","o","c","u","m","e","n","t">>),
                                     <<>>)
                /\ UNCHANGED <<fs, pandoc_calls>>
           ELSE /\ pandoc_calls' = pandoc_calls \cup
                       {[call |-> calls + 1, self |-> self, extension |-> extension,
                         source_file |-> file, to |-> extension,
                         outputfile |-> outputfile]}
                /\ \/ /\ result' = Result("DocConverter.convert", self, file, extension,
                                           Raise("RuntimeError", <<"P","a","n","d","o","c"," ","d","i","e","d">>), <<>>)
                      /\ fs' = fs
                   \/ \E doc \in PandocOutputs :
                        /\ result' = Result("DocConverter.convert", self, file, extension,
                                             None, <<>>)
                        /\ fs' = write(outputfile, Content(doc, ""))
    /\ UNCHANGED <<pypandoc_installed, module, objs, opened, saves>>

Next ==
    \/ Import
    \/ \E file \in Paths : NewImageFile(file)
    \/ \E file \in Paths : NewDocConverter(file)
    \/ \E self \in DOMAIN objs, extension \in Extensions : ImageFile_convert(self, extension)
    \/ \E self \in DOMAIN objs, extension \in Extensions : DocConverter_convert(self, extension)

Spec == Init /\ [][Next]_vars

(***************************************************************************)
(* _validate_extension on its own: every class, every spelling             *)
(***************************************************************************)
\* the tokens of both tables and one foreign token
Tokens == { <<"j","p","e","g">>, <<"j","p","g">>, <<"p","n","g">>, <<"w","e","b","p">>, <<"b","m","p">>, <<"g","i","f">>, <<"p","d","f">>,
            <<"d","o","c","x">>, <<"d","o","c">>, <<"t","x","t">>, <<"m","d">>, <<"c","s","v">>, <<"t","i","f","f">> }

\* spellings of a token: bare, upper case, with one or two leading dots
Spellings(t) == { t, upper(t), <<".">> \o t, <<".">> \o upper(t), <<".",".">> \o t }

ResolveInit ==
    /\ pypandoc_installed = TRUE
    /\ module = "loaded"
    /\ fs = InitialFiles
    /\ objs = <<>>
    /\ result = Result("start", 0, <<>>, <<>>, None, <<>>)
    /\ opened = {}
    /\ saves = {}
    /\ pandoc_calls = {}
    /\ calls = 0

Resolve(cls, extension) ==
    /\ LET r == _validate_extension(cls, extension)
           call == IF cls = "ImageFile" THEN "ImageFile._validate_extension"
                   ELSE "DocConverter._validate_extension"
       IN  result' = Result(call, 0, <<>>, extension, r.raised, r.value)
    /\ UNCHANGED <<pypandoc_installed, module, fs, objs, opened, saves, pandoc_calls, calls>>

ResolveNext == \E cls \in Classes, t \in Tokens : \E extension \in Spellings(t) :
                   Resolve(cls, extension)

SpecResolve == ResolveInit /\ [][ResolveNext]_vars


(***************************************************************************)
(* Properties                                                              *)
(***************************************************************************)
\* the extension as the resolver normalizes it
Normalized(extension) == lstrip(lower(extension), ".")

ImageTokens == { <<"j","p","e","g">>, <<"j","p","g">>, <<"p","n","g">>, <<"w","e","b","p">>, <<"b","m","p">>, <<"g","i","f">>, <<"p","d","f">> }

\* the canonical extension of an image token
Canonical(t) == IF t \in { <<"j","p","e","g">>, <<"j","p","g">> } THEN <<".","j","p","g">> ELSE <<".">> \o t

\* s begins with p, character by character
HasPrefix(s, p) == Len(p) <= Len(s) /\ \A k \in 1..Len(p) : s[k] = p[k]

IsImage(content) == HasPrefix(from_file(content), <<"i","m","a","g","e","/">>)

ImageKeysListed == <<"j","p","e","g",",","j","p","g",",","p","n","g",",","w","e","b","p",",","b","m","p",",","g","i","f",",","p","d","f">>

\* C1: ImageFile.convert with a supported token T on a file the decoder opens
\* writes, and returns, the bound path with its suffix replaced by the
\* canonical extension of T.
C1_ConvertWritesCanonicalPath ==
    ( /\ result.call = "ImageFile.convert"
      /\ result.extension \in ImageTokens
      /\ result.raised.type # "UnidentifiedImageError" )
    => /\ result.raised = None
       /\ result.value = with_suffix(result.file, Canonical(result.extension))
       /\ result.value \in DOMAIN fs

\* C2 as stated: ImageFile.convert with a token whose normalized form is no key
\* of the table fails with the unsupported-format ValueError, whose message
\* lists the table's keys.
C2_UnsupportedAlwaysRejected ==
    ( /\ result.call = "ImageFile.convert"
      /\ Normalized(result.extension) \notin ImageTokens )
    => /\ result.raised.type = "ValueError"
       /\ result.raised.msg = <<"U","n","s","u","p","p","o","r","t","e","d"," ","f","o","r","m","a","t",":"," ">> \o result.extension
                                \o <<"\n","S","u","p","p","o","r","t","e","d"," ","f","o","r","m","a","t","s",":"," ">> \o ImageKeysListed

\* C2 amended: the same, on an instance whose source file the image decoder
\* can open (Image.open runs before the extension is resolved).
C2_UnsupportedRejectedOnceDecoded ==
    ( /\ result.call = "ImageFile.convert"
      /\ Normalized(result.extension) \notin ImageTokens
      /\ fs[result.file].format \in Image_OPEN )
    => /\ result.raised.type = "ValueError"
       /\ result.raised.msg = <<"U","n","s","u","p","p","o","r","t","e","d"," ","f","o","r","m","a","t",":"," ">> \o result.extension
                                \o <<"\n","S","u","p","p","o","r","t","e","d"," ","f","o","r","m","a","t","s",":"," ">> \o ImageKeysListed
       /\ result.value = <<>>
       /\ \A s \in saves : s.call # calls

C2_Witness ==
    /\ result.call = "ImageFile.convert"
    /\ result.extension = <<"t","i","f","f">>
    /\ result.file = <<"p","h","o","t","o",".","p","n","g">>
    /\ result.raised.type = "ValueError"

\* C3: constructing an ImageFile on a file whose sniffed type does not start
\* with "image/" raises the input-type ValueError and yields no instance; files
\* handed to the decoder or the encoder belong to instances of image files.
C3_NonImageRejectedAtConstruction ==
    /\ ( /\ result.call = "ImageFile"
         /\ result.file \in DOMAIN fs
         /\ ~IsImage(fs[result.file]) )
       => /\ result.raised.type = "ValueError"
          /\ result.raised.msg = <<"O","n","l","y"," ","i","m","a","g","e","/"," ","f","i","l","e"," ","t","y","p","e","s"," ","c","a","n"," ","b","e"," ","p","a","s","s","e","d"," ","t","o"," ","t","h","i","s"," ","o","b","j","e","c","t">>
    /\ \A i \in DOMAIN objs : objs[i].cls = "ImageFile" => IsImage(fs[objs[i].file])
    /\ \A p \in opened : IsImage(fs[p])
    /\ \A s \in saves : objs[s.self].cls = "ImageFile" /\ IsImage(fs[s.file])

C3_Witness ==
    /\ result.call = "ImageFile"
    /\ result.file = <<"r","e","p","o","r","t",".","p","d","f">>
    /\ result.raised.type = "ValueError"
    /\ objs = <<>>

C5_JpegFlattensAlpha ==
    \A s \in saves :
        IF Normalized(s.extension) \in { <<"j","p","e","g">>, <<"j","p","g">> }
        THEN /\ s.source_mode \in {"RGBA", "LA", "P"} => s.mode = "RGB"
             /\ s.source_mode = "RGB" => s.mode = "RGB"
        ELSE s.mode = s.source_mode

C5_Witness ==
    \E s \in saves, p \in saves :
        /\ s.extension = <<"j","p","e","g">> /\ s.source_mode = "P" /\ s.mode = "RGB"
        /\ s.raised = None /\ fs[s.path] = Content(<<"J","P","E","G">>, "RGB")
        /\ p.extension = <<"p","n","g">> /\ p.source_mode = "P" /\ p.mode = "P"

\* C6: without pypandoc, DocConverter can still be constructed on an allowed
\* file, the instance has HAS_PYPANDOC false, and its convert raises the
\* capability RuntimeError without calling pypandoc.
C6_DegradedDocConverter ==
    ~pypandoc_installed =>
        /\ module # "ImportError"
        /\ \A i \in DOMAIN objs :
               objs[i].cls = "DocConverter" => ~objs[i].HAS_PYPANDOC
        /\ ( /\ result.call = "DocConverter"
             /\ result.file \in DOMAIN fs
             /\ \E i \in 1..Len(DocConverter_MIME_TYPE) :
                    HasPrefix(from_file(fs[result.file]), DocConverter_MIME_TYPE[i]) )
           => result.raised = None
        /\ result.call = "DocConverter.convert" =>
               /\ result.raised.type = "RuntimeError"
               /\ result.raised.msg = <<"p","y","p","a","n","d","o","c"," ","n","o","t"," ","a","v","a","i","l","a","b","l","e",","," ","c","a","n","n","o","t"," ","c","o","n","v","e","r","t"," ","d","o","c","u","m","e","n","t">>
        /\ pandoc_calls = {}

\* C7: DocConverter.convert hands pypandoc the format the resolver gives for the
\* requested extension and an output file named from it; an extension the
\* resolver rejects never reaches pypandoc.
C7_DocConvertResolvesFirst ==
    \A c \in pandoc_calls :
        LET r == _validate_extension("DocConverter", c.extension)
        IN  /\ r.raised = None
            /\ c.to = r.value
            /\ c.outputfile = <<"o","u","t","p","u","t",".">> \o r.value

\* C8: an instance keeps the file it was constructed with, and two convert
\* calls on it with the same extension target the same output path.
C8_BoundFileAndPathStable ==
    /\ \A s \in saves : s.file = objs[s.self].file
    /\ \A c \in pandoc_calls : c.source_file = objs[c.self].file
    /\ \A s \in saves, u \in saves :
           (s.self = u.self /\ s.extension = u.extension) => s.path = u.path
    /\ \A c \in pandoc_calls, d \in pandoc_calls :
           (c.self = d.self /\ c.extension = d.extension) => c.outputfile = d.outputfile

C8_Witness ==
    \E s \in saves, u \in saves :
        /\ s.call < u.call /\ s.self = u.self /\ s.extension = u.extension
        /\ s.raised = None /\ u.raised = None
        /\ s.path = u.path /\ s.path \in DOMAIN fs

\* C9 as stated: DocConverter(file) succeeds exactly when the sniffed type is
\* equal to an entry of DocConverter.MIME_TYPE.
C9_AllowListMatchedExactly ==
    ( result.call = "DocConverter" /\ result.file \in DOMAIN fs )
    => ( result.raised = None
         <=> \E i \in 1..Len(DocConverter_MIME_TYPE) :
                 from_file(fs[result.file]) = DocConverter_MIME_TYPE[i] )

\* C9 amended: DocConverter(file) succeeds exactly when the sniffed type begins
\* with an entry of DocConverter.MIME_TYPE, and raises the input-type ValueError
\* otherwise.
C9_AllowListMatchedByPrefix ==
    ( result.call = "DocConverter" /\ result.file \in DOMAIN fs )
    => /\ result.raised = None
          <=> \E i \in 1..Len(DocConverter_MIME_TYPE) :
                  HasPrefix(from_file(fs[result.file]), DocConverter_MIME_TYPE[i])
       /\ result.raised # None => result.raised.type = "ValueError"

C9_Witness ==
    /\ result.call = "DocConverter"
    /\ result.file = <<"f","o","r","m",".","o","t","t">>
    /\ result.raised = None
    /\ Len(objs) = 1 /\ objs[1].file = <<"f","o","r","m",".","o","t","t">>

\* C10: spellings of one image token that differ in case or a leading dot make
\* ImageFile.convert perform the same save: the same output path, and the
\* upper-cased dot-free token as the encoder's format.
C10_SpellingsSaveAlike ==
    /\ \A s \in saves : s.format = upper(Normalized(s.extension))
    /\ \A s \in saves, u \in saves :
           ( /\ s.self = u.self
             /\ Normalized(s.extension) = Normalized(u.extension) )
           => s.path = u.path /\ s.format = u.format

=============================================================================
